---- MODULE Spec2Model ----
(***************************************************************************)
(* Semantic cache (CAGCache) and the cache -> retrieval -> generation      *)
(* chain (CAGRAGChain.invoke) of woori_rag.                                *)
(*                                                                         *)
(* Texts are sequences of one-character strings; "X" stands for the cross  *)
(* mark that prefixes every error answer, " " for whitespace.  Distances   *)
(* and similarities are in hundredths (cosine distance 0.15 is 15).        *)
(***************************************************************************)
EXTENDS Integers, Sequences, FiniteSets, TLC

(* ---------------- bounds of the model ---------------- *)

\* dynamic_cache_size, the capacity of the recency window (constructor argument)
DynamicCacheSize == 2
\* number of distinct non-empty questions that are asked
NumQueries == 4
\* largest number of lines of a page's merged text given to extract_qa_pairs
MaxLines == 5

(* ---------------- program constants ---------------- *)

\* modulus of the dynamic key derivation, 10**8
KeyMod == 100000000
\* cache_threshold of the chain, 0.85
CacheThreshold == 85

\* the request threads that share the chain singleton
Threads == {1, 2}
\* the empty question is 0, the non-empty ones 1 .. NumQueries
Queries == 1 .. NumQueries
EmptyQuestion == 0

(* ---------------- texts ---------------- *)

\* whitespace for str.strip(): the blank and the newline
IsSpace(c) == c \in {" ", "\n"}

RECURSIVE LStrip(_)
LStrip(s) == IF s # <<>> /\ IsSpace(Head(s)) THEN LStrip(Tail(s)) ELSE s

RECURSIVE RStrip(_)
RStrip(s) ==
  IF s # <<>> /\ IsSpace(s[Len(s)]) THEN RStrip(SubSeq(s, 1, Len(s) - 1)) ELSE s

\* str.strip()
Strip(s) == RStrip(LStrip(s))

\* answer.startswith(cross mark)
StartsWithError(s) == s # <<>> /\ Head(s) = "X"

\* truth value of a str: the empty string is false
Truthy(s) == s # <<>>

MsgEmptyQuestion == <<"ask">>
MsgNoDocs == <<"nodocs">>
MsgConnection == <<"X", "c">>
MsgTimeout == <<"X", "t">>
MsgOther == <<"X", "o">>

(* ---------------- keys and embeddings ---------------- *)

Abs(n) == IF n < 0 THEN -n ELSE n

\* hash(query): an arbitrary integer per string; question 4 collides with
\* question 1 after abs and the modulus
StrHash(q) == IF q = 4 THEN -(KeyMod + 1) ELSE q

DynKeyInPdfSpace(q) == <<"pdf", q - 1>>

DynKey(q) == <<"dyn", Abs(StrHash(q)) % KeyMod>>
PdfKey(i) == <<"pdf", i>>
NoKey == <<"none", 0>>

\* the embedding of a question, a point on a line: questions 1 and 2 are at
\* distance 15 (similarity 0.85, the threshold), 2 and 3 at 16 (0.84), the
\* others far apart
Embed(q) ==
  CASE q = 1 -> 0
    [] q = 2 -> 15
    [] q = 3 -> 31
    [] OTHER -> 31 + 40 * (q - 3)

\* cosine distance of two embeddings, at most 2
Distance(a, b) == IF Abs(a - b) > 200 THEN 200 ELSE Abs(a - b)

(* ---------------- the index (Redis hashes under the prefix cache:) -------- *)

NoEntry == [text |-> <<>>, source |-> "none", embedding |-> 0]

\* r.hset(key, mapping): writes or overwrites all three fields of the hash
Hset(idx, key, entry) ==
  [k \in DOMAIN idx \cup {key} |-> IF k = key THEN entry ELSE idx[k]]

\* r.delete(key): deleting an absent key changes nothing
Delete(idx, key) == [k \in DOMAIN idx \ {key} |-> idx[k]]

\* the keys of the entries nearest to the query vector: docs[0] of the KNN
\* search sorted by score is one of them (ties are broken by the backend)
NearestKeys(idx, vec) ==
  {k \in DOMAIN idx :
     \A j \in DOMAIN idx :
        Distance(idx[k].embedding, vec) <= Distance(idx[j].embedding, vec)}

\* sim = 1 - float(res.docs[0].score)
Similarity(entry, vec) == 100 - Distance(entry.embedding, vec)

\* the threshold of the chain is not handed on: check_cache's default, 0.7
IsHitDefaultThreshold(sim, threshold) == sim >= 70

\* if sim >= threshold
IsHit(sim, threshold) == sim >= threshold

(* ---------------- the recency window (collections.deque(maxlen=N)) -------- *)

\* a deque that makes room at the wrong end
DequeAppendDropsNewest(dq, maxlen, key) ==
  IF maxlen = 0 THEN dq
  ELSE IF Len(dq) >= maxlen THEN Append(SubSeq(dq, 1, Len(dq) - 1), key)
  ELSE Append(dq, key)

\* a deque without maxlen: it grows
DequeAppendUnbounded(dq, maxlen, key) == Append(dq, key)

\* deque.append on a deque with maxlen: a full deque discards its leftmost
\* item to make room.  The append is one atomic step of the interpreter
\* (deque appends and pops are thread-safe), so threads interleave between
\* the statements of save_dynamic_cache, not inside the append.
DequeAppend(dq, maxlen, key) ==
  IF maxlen = 0 THEN dq
  ELSE IF Len(dq) >= maxlen THEN Append(Tail(dq), key)
  ELSE Append(dq, key)

\* the item deque.append discards, NoKey when there is room
DequeDiscarded(dq, maxlen, key) ==
  IF maxlen = 0 THEN key
  ELSE IF Len(dq) >= maxlen THEN Head(dq)
  ELSE NoKey

\* an off-by-one length test
OverCapacityOffByOne(dq, maxlen) == Len(dq) >= maxlen

\* if len(self.user_cache) > self.user_cache.maxlen
OverCapacity(dq, maxlen) == Len(dq) > maxlen

Range(f) == {f[i] : i \in DOMAIN f}

(* ---------------- the external collaborators' answers ---------------- *)

\* what the generator may return when it does not fail: an answer with
\* trailing whitespace, a whitespace-only answer, an answer that itself
\* begins with the cross mark
GenOutputs == {<<"a", " ">>, <<" ">>, <<"X", "a">>}
GenFailures == {"conn", "timeout", "other"}

\* the outcomes of a call of the generator: an answer or an exception
GenOutcomes ==
  {[kind |-> "ok", text |-> o] : o \in GenOutputs}
    \cup {[kind |-> f, text |-> <<>>] : f \in GenFailures}

\* the hit lists of the retrieval search
HitLists == {<<>>, <<[source |-> <<"s">>, content |-> <<>>]>>}

\* the outcomes of the retrieval search: a hit list or an exception
RetrievalOutcomes ==
  {[kind |-> "ok", hits |-> h] : h \in HitLists}
    \cup {[kind |-> "error", hits |-> <<>>]}

\* the question/answer lists handed to pre_cache_pdf
QALists == {<<[question |-> 3, answer |-> <<"p">>]>>}

\* _retrieve_documents: "" on no hit, else header, content and footer per hit
RECURSIVE BuildContext(_)
BuildContext(hits) ==
  IF hits = <<>> THEN <<>>
  ELSE <<"h">> \o Head(hits).source \o Head(hits).content \o <<"f">>
         \o BuildContext(Tail(hits))

\* a handler that returns the error text instead of ""
RetrieveDocumentsErrorText(outcome) ==
  IF outcome.kind = "error" THEN <<"X", "r">> ELSE BuildContext(outcome.hits)

RetrieveDocuments(outcome) ==
  IF outcome.kind = "error" THEN <<>> ELSE BuildContext(outcome.hits)

\* _generate_answer: the stripped answer, or an error string on an exception
GenerateAnswer(outcome) ==
  CASE outcome.kind = "conn" -> MsgConnection
    [] outcome.kind = "timeout" -> MsgTimeout
    [] outcome.kind = "other" -> MsgOther
    [] OTHER -> Strip(outcome.text)

\* every answer is written back
ShouldSaveAlways(ans) == TRUE

\* if not answer.startswith(cross mark): the answer is written back
ShouldSave(ans) == ~StartsWithError(ans)

(* ---------------- state ---------------- *)

VARIABLES
  index,       \* key -> entry, the hashes of the Redis index
  user_cache,  \* the recency window, a sequence of keys
  pc,          \* per thread: where its invocation stands
  question,    \* per thread: the question of its invocation
  answer,      \* per thread: the generated answer
  result,      \* per thread: the value invoke returned
  last,        \* per thread: how the latest collaborator call ended
  ev,          \* per thread: what its insert into the window removed
  recent,      \* the last DynamicCacheSize + 1 keys appended to the window
  lines,       \* extract_qa_pairs: the lines of the page's merged text
  pos,         \* extract_qa_pairs: the number of lines scanned
  current_q,   \* extract_qa_pairs: the open question, <<>> when none
  current_a,   \* extract_qa_pairs: the answer lines of the open question
  qa_pairs,    \* extract_qa_pairs: the pairs emitted so far
  qa_pc        \* extract_qa_pairs: "off", "scan" or "done"

qaVars == <<lines, pos, current_q, current_a, qa_pairs, qa_pc>>

vars == <<index, user_cache, pc, question, answer, result, last, ev, recent, qaVars>>

NoResult == [answer |-> <<>>, cache_hit |-> FALSE, source |-> "unset"]
NoEv == [evicted |-> NoKey, deleted |-> NoKey, full |-> FALSE, overlap |-> FALSE,
         repeat |-> FALSE]

InSave == {"save_hset", "save_append", "save_evict"}

\* a fresh index and a newly constructed CAGCache, every thread idle
InitChain ==
  /\ index = <<>>
  /\ user_cache = <<>>
  /\ pc = [t \in Threads |-> "idle"]
  /\ question = [t \in Threads |-> EmptyQuestion]
  /\ answer = [t \in Threads |-> <<>>]
  /\ result = [t \in Threads |-> NoResult]
  /\ last = [t \in Threads |-> "none"]
  /\ ev = [t \in Threads |-> NoEv]
  /\ recent = <<>>

\* the chain after construction; no extraction is running
Init ==
  /\ InitChain
  /\ lines = <<>>
  /\ pos = 0
  /\ current_q = <<>>
  /\ current_a = <<>>
  /\ qa_pairs = <<>>
  /\ qa_pc = "off"

\* a return of invoke
Return(t, ans, hit, src) ==
  /\ pc' = [pc EXCEPT ![t] = "done"]
  /\ result' = [result EXCEPT ![t] = [answer |-> ans, cache_hit |-> hit, source |-> src]]

\* an exception that leaves invoke
Raise(t) ==
  /\ pc' = [pc EXCEPT ![t] = "raised"]
  /\ UNCHANGED result

(* ---------------- CAGRAGChain.invoke ---------------- *)

\* invoke is entered: an empty question is answered at once
Invoke(t, q) ==
  /\ pc[t] = "idle"
  /\ question' = [question EXCEPT ![t] = q]
  /\ IF q = EmptyQuestion
       THEN Return(t, MsgEmptyQuestion, FALSE, "NONE")
       ELSE /\ pc' = [pc EXCEPT ![t] = "check_cache"]
            /\ UNCHANGED result
  /\ UNCHANGED <<index, user_cache, answer, last, ev, recent>>
  /\ UNCHANGED qaVars

\* after a MISS: on to the retrieval
ToRetrieve(t) ==
  /\ pc' = [pc EXCEPT ![t] = "retrieve"]
  /\ UNCHANGED result

OnSearchErrorUncaught(t) == Raise(t)

\* except Exception around the search: check_cache returns None, a MISS
OnSearchError(t) == ToRetrieve(t)

\* check_cache and the test of its result in invoke
CheckCache(t) ==
  /\ pc[t] = "check_cache"
  /\ \/ \* the embedding of the question fails, outside any try
        /\ last' = [last EXCEPT ![t] = "embed_error"]
        /\ Raise(t)
     \/ \* the search fails: caught, None
        /\ last' = [last EXCEPT ![t] = "search_error"]
        /\ OnSearchError(t)
     \/ \* no document
        /\ DOMAIN index = {}
        /\ last' = [last EXCEPT ![t] = "no_docs"]
        /\ ToRetrieve(t)
     \/ \E k \in NearestKeys(index, Embed(question[t])) :
          LET top == index[k]
              sim == Similarity(top, Embed(question[t]))
          IN /\ last' = [last EXCEPT ![t] = "scored"]
             /\ IF IsHit(sim, CacheThreshold) /\ Truthy(top.text)
                  THEN Return(t, top.text, TRUE, "CAG")
                  ELSE ToRetrieve(t)
  /\ UNCHANGED <<index, user_cache, question, answer, ev, recent>>
  /\ UNCHANGED qaVars

\* _retrieve_documents and the test of the context in invoke
Retrieve(t) ==
  /\ pc[t] = "retrieve"
  /\ \E outcome \in RetrievalOutcomes :
       /\ last' = [last EXCEPT ![t] =
                    IF outcome.kind = "error" THEN "error"
                    ELSE IF outcome.hits = <<>> THEN "empty" ELSE "hits"]
       /\ IF ~Truthy(RetrieveDocuments(outcome))
            THEN Return(t, MsgNoDocs, FALSE, "NONE")
            ELSE /\ pc' = [pc EXCEPT ![t] = "generate"]
                 /\ UNCHANGED result
  /\ UNCHANGED <<index, user_cache, question, answer, ev, recent>>
  /\ UNCHANGED qaVars

\* _generate_answer and the decision to write back
Generate(t) ==
  /\ pc[t] = "generate"
  /\ \E outcome \in GenOutcomes :
       LET ans == GenerateAnswer(outcome)
       IN /\ last' = [last EXCEPT ![t] = outcome.kind]
          /\ answer' = [answer EXCEPT ![t] = ans]
          /\ IF ShouldSave(ans)
               THEN /\ pc' = [pc EXCEPT ![t] = "save_hset"]
                    /\ UNCHANGED result
               ELSE Return(t, ans, FALSE, "RAG")
  /\ UNCHANGED <<index, user_cache, question, ev, recent>>
  /\ UNCHANGED qaVars

(* ---------------- CAGCache.save_dynamic_cache ---------------- *)

\* the entry save_dynamic_cache writes
DynamicEntry(q, ans) ==
  [text |-> ans, source |-> "dynamic_cache", embedding |-> Embed(q)]

\* the shared state is the one a completed save_dynamic_cache of the same
\* query and answer leaves: the entry is in the index, the key is the newest
\* of the window
AlreadyWritten(t) ==
  LET key == DynKey(question[t])
  IN /\ key \in DOMAIN index
     /\ index[key] = DynamicEntry(question[t], answer[t])
     /\ user_cache # <<>>
     /\ user_cache[Len(user_cache)] = key

\* key = ...; self.r.hset(key, ...): the embedding or the write may fail,
\* and nothing catches it
SaveHset(t) ==
  /\ pc[t] = "save_hset"
  /\ \/ /\ index' = Hset(index, DynKey(question[t]), DynamicEntry(question[t], answer[t]))
        /\ pc' = [pc EXCEPT ![t] = "save_append"]
        /\ ev' = [ev EXCEPT ![t].repeat = AlreadyWritten(t)]
        /\ UNCHANGED last
     \/ /\ last' = [last EXCEPT ![t] = "hset_error"]
        /\ pc' = [pc EXCEPT ![t] = "raised"]
        /\ UNCHANGED <<index, ev>>
  /\ UNCHANGED <<user_cache, question, answer, result, recent>>
  /\ UNCHANGED qaVars

\* the last n items of a sequence
LastN(s, n) == IF Len(s) <= n THEN s ELSE SubSeq(s, Len(s) - n + 1, Len(s))

\* self.user_cache.append(key)
SaveAppend(t) ==
  /\ pc[t] = "save_append"
  /\ LET key == DynKey(question[t])
     IN /\ user_cache' = DequeAppend(user_cache, DynamicCacheSize, key)
        /\ ev' = [ev EXCEPT
                    ![t].evicted = DequeDiscarded(user_cache, DynamicCacheSize, key),
                    ![t].full = Len(user_cache) >= DynamicCacheSize,
                    ![t].overlap = \E u \in Threads \ {t} : pc[u] \in InSave]
        /\ recent' = LastN(Append(recent, key), DynamicCacheSize + 1)
  /\ pc' = [pc EXCEPT ![t] = "save_evict"]
  /\ UNCHANGED <<index, question, answer, result, last>>
  /\ UNCHANGED qaVars

\* if len(self.user_cache) > self.user_cache.maxlen: popleft and delete;
\* then the return of save_dynamic_cache and of invoke
SaveEvict(t) ==
  /\ pc[t] = "save_evict"
  /\ IF OverCapacity(user_cache, DynamicCacheSize)
       THEN /\ user_cache' = Tail(user_cache)
            /\ index' = Delete(index, Head(user_cache))
            /\ ev' = [ev EXCEPT ![t].evicted = Head(user_cache),
                                ![t].deleted = Head(user_cache)]
       ELSE UNCHANGED <<user_cache, index, ev>>
  /\ Return(t, answer[t], FALSE, "RAG")
  /\ UNCHANGED <<question, answer, last, recent>>
  /\ UNCHANGED qaVars

\* the caller takes the result (or the exception) and the thread is free
Finish(t) ==
  /\ pc[t] \in {"done", "raised"}
  /\ pc' = [pc EXCEPT ![t] = "idle"]
  /\ question' = [question EXCEPT ![t] = EmptyQuestion]
  /\ answer' = [answer EXCEPT ![t] = <<>>]
  /\ result' = [result EXCEPT ![t] = NoResult]
  /\ last' = [last EXCEPT ![t] = "none"]
  /\ ev' = [ev EXCEPT ![t] = NoEv]
  /\ UNCHANGED <<index, user_cache, recent>>
  /\ UNCHANGED qaVars

(* ---------------- CAGCache.pre_cache_pdf ---------------- *)

PreCachedEntry(qa) ==
  [text |-> qa.answer, source |-> "pdf_pre_cache", embedding |-> Embed(qa.question)]

RECURSIVE HsetAll(_, _, _)
HsetAll(idx, qa_list, i) ==
  IF i > Len(qa_list) THEN idx
  ELSE HsetAll(Hset(idx, PdfKey(i - 1), PreCachedEntry(qa_list[i])), qa_list, i + 1)

PreCachePdf ==
  /\ \E qa_list \in QALists : index' = HsetAll(index, qa_list, 1)
  /\ index' # index
  /\ UNCHANGED <<user_cache, pc, question, answer, result, last, ev, recent>>
  /\ UNCHANGED qaVars

(* ---------------- specifications ---------------- *)

\* the questions two threads ask at the same time
ConcQueries == {1, 2}

\* one request at a time, every question, the cache pre-populated or not
Next ==
  \/ \E q \in Queries \cup {EmptyQuestion} : Invoke(1, q)
  \/ CheckCache(1)
  \/ Retrieve(1)
  \/ Generate(1)
  \/ SaveHset(1)
  \/ SaveAppend(1)
  \/ SaveEvict(1)
  \/ Finish(1)
  \/ PreCachePdf

Spec == Init /\ [][Next]_vars

\* the threads run invoke concurrently on the shared chain
NextConc ==
  \/ \E t \in Threads : \E q \in ConcQueries : Invoke(t, q)
  \/ \E t \in Threads : CheckCache(t)
  \/ \E t \in Threads : Retrieve(t)
  \/ \E t \in Threads : Generate(t)
  \/ \E t \in Threads : SaveHset(t)
  \/ \E t \in Threads : SaveAppend(t)
  \/ \E t \in Threads : SaveEvict(t)
  \/ \E t \in Threads : Finish(t)

SpecConc == Init /\ [][NextConc]_vars

(* ---------------- CAGCache.extract_qa_pairs, one page ---------------- *)

\* Lines are texts; "?" stands for the question marks and the sentence
\* endings of the pattern that must close the line, "w" for the words of the
\* pattern that make a line a question wherever they stand.
PageLines ==
  { <<"q", "?">>, <<" ", "w", "a", " ">>,
    <<"a">>, <<" ", "b">>, <<"?", "a">>, <<>>, <<" ">> }

\* merged_text.split("\n"): never an empty list
Pages == UNION { [1 .. n -> PageLines] : n \in 1 .. MaxLines }

\* re.match of the question pattern on the stripped line
IsQuestion(line) ==
  /\ line # <<>>
  /\ \/ line[Len(line)] = "?"
     \/ \E i \in 1 .. Len(line) : line[i] = "w"

\* "\n".join(current_a)
RECURSIVE JoinLines(_)
JoinLines(ls) ==
  IF ls = <<>> THEN <<>>
  ELSE IF Len(ls) = 1 THEN ls[1]
  ELSE ls[1] \o <<"\n">> \o JoinLines(Tail(ls))

AnswerTextNoStrip(ls) == JoinLines(ls)

\* "\n".join(current_a).strip()
AnswerText(ls) == Strip(JoinLines(ls))

ShouldFlushOpenQuestion(q, a) == q # <<>>

\* if current_q and current_a
ShouldFlush(q, a) == q # <<>> /\ a # <<>>

\* qa_pairs after the test that closes the open question
Flushed ==
  IF ShouldFlush(current_q, current_a)
    THEN Append(qa_pairs, [question |-> current_q, answer |-> AnswerText(current_a)])
    ELSE qa_pairs

chainVars == <<index, user_cache, pc, question, answer, result, last, ev, recent>>

\* one iteration of the loop over the lines
ScanLine ==
  /\ qa_pc = "scan"
  /\ pos < Len(lines)
  /\ LET line == Strip(lines[pos + 1])
     IN IF IsQuestion(line)
          THEN /\ qa_pairs' = Flushed
               /\ current_q' = line
               /\ current_a' = <<>>
          ELSE IF current_q # <<>>
            THEN /\ current_a' = Append(current_a, line)
                 /\ UNCHANGED <<current_q, qa_pairs>>
            ELSE UNCHANGED <<current_q, current_a, qa_pairs>>
  /\ pos' = pos + 1
  /\ UNCHANGED <<lines, qa_pc, chainVars>>

\* the test after the loop, and the end of the page
FlushEnd ==
  /\ qa_pc = "scan"
  /\ pos = Len(lines)
  /\ qa_pairs' = Flushed
  /\ qa_pc' = "done"
  /\ UNCHANGED <<lines, pos, current_q, current_a, chainVars>>

\* extract_qa_pairs is given any page of at most MaxLines lines
InitQA ==
  /\ InitChain
  /\ lines \in Pages
  /\ pos = 0
  /\ current_q = <<>>
  /\ current_a = <<>>
  /\ qa_pairs = <<>>
  /\ qa_pc = "scan"

NextQA ==
  \/ ScanLine
  \/ FlushEnd

SpecQA == InitQA /\ [][NextQA]_vars

(* ---------------- the claims ---------------- *)

Quiescent == \A t \in Threads : pc[t] \notin InSave

DynamicKeys == {k \in DOMAIN index : index[k].source = "dynamic_cache"}

PairwiseDistinct(seq) ==
  \A i, j \in DOMAIN seq : i # j => seq[i] # seq[j]

\* C1: once no save_dynamic_cache call is in flight, every dynamic key that
\* has left the window has been deleted from the index, so that at most
\* DynamicCacheSize dynamic entries are resident.
C1_EvictedKeysDeleted ==
  Quiescent =>
    /\ \A k \in DynamicKeys : k \in Range(user_cache)
    /\ Cardinality(DynamicKeys) <= DynamicCacheSize

\* C2: after more than DynamicCacheSize inserts the window is exactly the
\* last DynamicCacheSize keys inserted, in insertion order; when those
\* inserts had pairwise distinct keys, the key inserted before them is gone.
C2_WindowHoldsMostRecent ==
  (Len(recent) > DynamicCacheSize /\ \A t \in Threads : pc[t] # "save_evict") =>
    /\ user_cache = LastN(recent, DynamicCacheSize)
    /\ PairwiseDistinct(recent) => Head(recent) \notin Range(user_cache)

C2_Witness ==
  /\ Len(recent) = DynamicCacheSize + 1
  /\ PairwiseDistinct(recent)
  /\ \A t \in Threads : pc[t] = "idle"
  /\ user_cache = Tail(recent)

\* C3: the window never holds more than DynamicCacheSize keys, also between
\* the append and the length test of save_dynamic_cache.
C3_WindowBounded == Len(user_cache) <= DynamicCacheSize

\* a thread stands between the append and the length test, after an append
\* to a full window, while the other thread is reading the cache
C3_Witness ==
  \E t, u \in Threads :
    /\ pc[t] = "save_evict"
    /\ ev[t].evicted # NoKey
    /\ Len(user_cache) = DynamicCacheSize
    /\ pc[u] = "check_cache"

\* the similarity of the entries ranked first for the question of thread t
TopKeys(t) == NearestKeys(index, Embed(question[t]))
TopIsHit(t) ==
  \E k \in TopKeys(t) : Similarity(index[k], Embed(question[t])) >= CacheThreshold

\* C4: a lookup whose top-ranked entry has similarity >= the threshold ends
\* the invocation in HIT: that entry's text, cache_hit, source CAG, nothing
\* written, whatever the text.
C4_HitReturnsTopText ==
  [][\A t \in Threads :
       (pc[t] = "check_cache" /\ last'[t] = "scored" /\ TopIsHit(t)) =>
         /\ pc'[t] = "done"
         /\ result'[t].cache_hit
         /\ result'[t].source = "CAG"
         /\ result'[t].answer \in {index[k].text : k \in TopKeys(t)}
         /\ UNCHANGED <<index, user_cache>>]_vars

ErrorMessages == {MsgConnection, MsgTimeout, MsgOther}

\* C5: when the generator fails the invocation returns an error string with
\* cache_hit false and source RAG, and no step of the invocation up to there
\* changes the index or the window.
C5_GenFailureNoWrite ==
  [][\A t \in Threads :
       /\ (pc[t] = "generate" /\ last'[t] \in GenFailures) =>
            /\ pc'[t] = "done"
            /\ result'[t].answer \in ErrorMessages
            /\ result'[t].cache_hit = FALSE
            /\ result'[t].source = "RAG"
            /\ UNCHANGED <<index, user_cache>>
       /\ (pc[t] \in {"idle", "check_cache", "retrieve"} /\ pc'[t] # pc[t]) =>
            UNCHANGED <<index, user_cache>>]_vars

C5_Witness ==
  \E t \in Threads :
    /\ pc[t] = "done"
    /\ last[t] = "timeout"
    /\ result[t] = [answer |-> MsgTimeout, cache_hit |-> FALSE, source |-> "RAG"]
    /\ Len(user_cache) = DynamicCacheSize

\* C6: a lookup that finds no match, or a best match below the threshold,
\* returns no cached answer and goes on to the retrieval with the question.
C6_MissGoesToRetrieve ==
  [][\A t \in Threads :
       (/\ pc[t] = "check_cache"
        /\ last'[t] \in {"no_docs", "scored"}
        /\ ~TopIsHit(t)) =>
         /\ pc'[t] = "retrieve"
         /\ result'[t] = NoResult
         /\ question'[t] = question[t]]_vars

\* the best match is just below the threshold
C6_Witness ==
  \E t \in Threads :
    /\ pc[t] = "retrieve"
    /\ last[t] = "scored"
    /\ \E k \in TopKeys(t) :
         Similarity(index[k], Embed(question[t])) = CacheThreshold - 1

\* C7: a retrieval without passages, or one that fails, ends the invocation
\* in NO_DOCS: the fixed message, cache_hit false, source NONE, no
\* generation, nothing written.
C7_NoDocsIsTerminal ==
  [][\A t \in Threads :
       (pc[t] = "retrieve" /\ last'[t] \in {"empty", "error"}) =>
         /\ pc'[t] = "done"
         /\ result'[t] = [answer |-> MsgNoDocs, cache_hit |-> FALSE, source |-> "NONE"]
         /\ UNCHANGED <<index, user_cache, answer>>]_vars

C7_Witness ==
  \E t \in Threads :
    /\ pc[t] = "done"
    /\ last[t] = "error"
    /\ result[t] = [answer |-> MsgNoDocs, cache_hit |-> FALSE, source |-> "NONE"]
    /\ DOMAIN index # {}

\* thread t has appended its key in the call it is in or has just left
Inserted(t) ==
  \/ pc[t] = "save_evict"
  \/ pc[t] = "done" /\ last[t] = "ok" /\ ShouldSave(answer[t])

Occurrences(seq, x) == Cardinality({i \in DOMAIN seq : seq[i] = x})

\* C8: when DynamicCacheSize threads have inserted distinct keys into the
\* window that was empty, the window holds exactly these keys, each once.
C8_ConcurrentInsertsAllKept ==
  LET S == {t \in Threads : Inserted(t)}
  IN (/\ Cardinality(S) = DynamicCacheSize
      /\ Len(recent) = DynamicCacheSize
      /\ \A t, u \in S : t # u => DynKey(question[t]) # DynKey(question[u])) =>
       /\ Len(user_cache) = DynamicCacheSize
       /\ \A t \in S : Occurrences(user_cache, DynKey(question[t])) = 1

\* both threads were inside save_dynamic_cache at the same time and have
\* returned
C8_Witness ==
  /\ \A t \in Threads : pc[t] = "done" /\ Inserted(t)
  /\ \E t \in Threads : ev[t].overlap
  /\ Len(recent) = DynamicCacheSize
  /\ Cardinality(Threads) = DynamicCacheSize
  /\ PairwiseDistinct(user_cache)
  /\ Len(user_cache) = DynamicCacheSize

\* C9: two inserts that run at the same time on a full window each evict
\* one key and delete it from the index.
C9_EachInsertEvictsAndDeletes ==
  \A t, u \in Threads :
    (/\ t # u
     /\ pc[t] = "done" /\ Inserted(t) /\ ev[t].full
     /\ pc[u] = "done" /\ Inserted(u) /\ ev[u].full
     /\ ev[t].overlap \/ ev[u].overlap) =>
      /\ ev[t].evicted # NoKey /\ ev[t].deleted = ev[t].evicted
      /\ ev[u].evicted # NoKey /\ ev[u].deleted = ev[u].evicted

\* C10: every key of the window is the key of a live dynamic entry.
C10_WindowKeysLive ==
  \A i \in DOMAIN user_cache :
    /\ user_cache[i] \in DOMAIN index
    /\ index[user_cache[i]].source = "dynamic_cache"

\* a key has been evicted from the full window while another call has
\* written its entry and not yet appended its key
C10_Witness ==
  \E t, u \in Threads :
    /\ pc[t] = "done" /\ ev[t].evicted # NoKey
    /\ pc[u] = "save_append"
    /\ Len(user_cache) = DynamicCacheSize

\* the keys of the entries written by pre_cache_pdf
PreCached(idx) == {k \in DOMAIN idx : idx[k].source = "pdf_pre_cache"}

\* C11: the window never holds the key of a pre-cached entry, and no step of
\* an invocation (lookup, write-back, eviction) removes or changes a
\* pre-cached entry: it stays in the index with its text.
C11_PreCachedUntouched ==
  [][ /\ \A i \in 1 .. Len(user_cache) : user_cache[i] \notin PreCached(index)
      /\ (\E t \in Threads : pc'[t] # pc[t]) =>
            \A k \in PreCached(index) : k \in DOMAIN index' /\ index'[k] = index[k] ]_vars

\* a write-back on a full window has completed while the pre-cached entry is
\* in the index with its text
C11_Witness ==
  /\ PdfKey(0) \in DOMAIN index
  /\ index[PdfKey(0)].text = <<"p">>
  /\ \E t \in Threads : pc[t] = "done" /\ Inserted(t) /\ ev[t].evicted # NoKey

\* C12: whatever collaborator fails, no invocation ends by an exception that
\* leaves invoke, and every finished invocation has returned a result whose
\* source is CAG, RAG or NONE.
C12_EveryFailureHandled ==
  \A t \in Threads :
    /\ pc[t] # "raised"
    /\ pc[t] = "done" => result[t].source \in {"CAG", "RAG", "NONE"}

\* C13: when the embedding of the question fails in the cache lookup, the
\* lookup is a MISS: the invocation goes on to retrieval and neither the
\* index nor the window changes.
C13_EmbedFailureIsMiss ==
  [][ \A t \in Threads :
        pc[t] = "check_cache" /\ pc'[t] # "check_cache" /\ last'[t] = "embed_error" =>
          pc'[t] = "retrieve" /\ UNCHANGED <<index, user_cache>> ]_vars

\* C14: when the search of the index fails in the cache lookup, the lookup
\* is a MISS as for an empty result: the invocation goes on to retrieval with
\* no result set, and neither the index nor the window changes.
C14_SearchFailureIsMiss ==
  [][ \A t \in Threads :
        pc[t] = "check_cache" /\ pc'[t] # "check_cache" /\ last'[t] = "search_error" =>
          /\ pc'[t] = "retrieve"
          /\ result'[t] = NoResult
          /\ UNCHANGED <<index, user_cache>> ]_vars

\* the search failed on a lookup that would have been a HIT, and the
\* invocation is at retrieval
C14_Witness ==
  \E t \in Threads :
    /\ pc[t] = "retrieve"
    /\ last[t] = "search_error"
    /\ TopIsHit(t)
    /\ user_cache # <<>>

\* C15: a save_dynamic_cache that starts in the state left by a completed
\* save_dynamic_cache of the same query and answer changes neither the index
\* nor the window: twice is the same as once.
C15_WriteBackIdempotent ==
  [][ \A t \in Threads :
        /\ (pc[t] = "save_hset" /\ pc'[t] # pc[t] /\ AlreadyWritten(t)) =>
              UNCHANGED <<index, user_cache>>
        /\ (pc[t] \in {"save_append", "save_evict"} /\ pc'[t] # pc[t] /\ ev[t].repeat) =>
              UNCHANGED <<index, user_cache>> ]_vars

\* line i of the page is a question line
QuestionAt(i) == IsQuestion(Strip(lines[i]))

\* the first question line after line i, or the line after the last
BlockEnd(i) ==
  CHOOSE j \in (i + 1) .. (Len(lines) + 1) :
    /\ j = Len(lines) + 1 \/ QuestionAt(j)
    /\ \A m \in (i + 1) .. (j - 1) : ~QuestionAt(m)

\* the question lines that are followed by at least one non-question line
EmitIdx == {i \in 1 .. Len(lines) : QuestionAt(i) /\ BlockEnd(i) > i + 1}

\* the k-th of them in the order of the page
NthEmit(k) == CHOOSE i \in EmitIdx : Cardinality({j \in EmitIdx : j < i}) = k - 1

StrippedLines == [i \in 1 .. Len(lines) |-> Strip(lines[i])]

\* C16: extraction emits, in the order of the page, exactly one pair for each
\* question line that is followed by a non-question line; the answer is the
\* lines up to the next question line or the end, each stripped, joined by
\* newlines, and the joined text stripped; lines before the first question
\* line are in no pair.
C16_PairsAreStrippedBlocks ==
  qa_pc = "done" =>
    qa_pairs = [k \in 1 .. Cardinality(EmitIdx) |->
                  [question |-> Strip(lines[NthEmit(k)]),
                   answer |-> Strip(JoinLines(SubSeq(StrippedLines, NthEmit(k) + 1,
                                                     BlockEnd(NthEmit(k)) - 1)))]]

\* C16 as stated: the answer is the non-question lines themselves joined by
\* newlines.
C16_PairsAreJoinedLines ==
  qa_pc = "done" =>
    qa_pairs = [k \in 1 .. Cardinality(EmitIdx) |->
                  [question |-> Strip(lines[NthEmit(k)]),
                   answer |-> JoinLines(SubSeq(lines, NthEmit(k) + 1,
                                               BlockEnd(NthEmit(k)) - 1))]]

\* the page Q, A1, A2, Q', A3 gave two pairs, the first with a two-line
\* answer
C16_Witness ==
  /\ qa_pc = "done"
  /\ Len(lines) = 5
  /\ QuestionAt(1) /\ ~QuestionAt(2) /\ ~QuestionAt(3) /\ QuestionAt(4) /\ ~QuestionAt(5)
  /\ Len(qa_pairs) = 2
  /\ qa_pairs[1].answer = <<"a", "\n", "b">>
  /\ qa_pairs[2].question # qa_pairs[1].question

\* C17: scanning a question line that comes right after a question line
\* emits no pair, and the first question is dropped for the second.
C17_QuestionAfterQuestionEmitsNothing ==
  [][ (qa_pc = "scan" /\ pos' = pos + 1 /\ pos >= 1
         /\ QuestionAt(pos) /\ QuestionAt(pos + 1)) =>
        /\ qa_pairs' = qa_pairs
        /\ current_q' = Strip(lines[pos + 1])
        /\ current_a' = <<>> ]_vars

\* two question lines in a row and then an answer line: the only pair is
\* the second question's
C17_Witness ==
  /\ qa_pc = "done"
  /\ Len(lines) = 3
  /\ QuestionAt(1) /\ QuestionAt(2) /\ ~QuestionAt(3)
  /\ Strip(lines[1]) # Strip(lines[2])
  /\ Len(qa_pairs) = 1
  /\ qa_pairs[1].question = Strip(lines[2])

\* C20: no emitted pair has an empty answer.
C20_AnswersNonEmpty ==
  \A k \in 1 .. Len(qa_pairs) : qa_pairs[k].answer # <<>>

\* the order of the stages of an invocation; an exception has no rank
StageRank(p) ==
  CASE p = "check_cache" -> 1
    [] p = "retrieve" -> 2
    [] p = "generate" -> 3
    [] p = "save_hset" -> 4
    [] p = "save_append" -> 5
    [] p = "save_evict" -> 6
    [] p = "done" -> 7
    [] OTHER -> 0

\* C18: every step of an invocation, a failure or timeout of its stage
\* included, takes it to a later stage or to its return, so that it returns
\* with a terminal outcome after finitely many steps; no step aborts it.
C18_EveryStepTowardsReturn ==
  [][ \A t \in Threads :
        (StageRank(pc[t]) \in 1 .. 6 /\ pc'[t] # pc[t]) =>
          StageRank(pc'[t]) > StageRank(pc[t]) ]_vars

\* C19: a generation that succeeds goes on to the write-back and nothing
\* else does; when the write-back has completed the answer is stored under
\* the query's key, the key is the newest of the window, and a lookup of the
\* same query is a HIT with that answer.
C19_GenerationThenWriteBack ==
  [][ \A t \in Threads :
        /\ (pc[t] = "generate" /\ pc'[t] # pc[t] /\ last'[t] = "ok") =>
              pc'[t] = "save_hset"
        /\ (pc[t] # "save_hset" /\ pc'[t] = "save_hset") =>
              pc[t] = "generate" /\ last'[t] = "ok"
        /\ (pc[t] = "save_evict" /\ pc'[t] = "done") =>
              LET key == DynKey(question[t])
                  vec == Embed(question[t])
              IN /\ key \in DOMAIN index'
                 /\ index'[key].text = answer[t]
                 /\ user_cache'[Len(user_cache')] = key
                 /\ \A k \in NearestKeys(index', vec) :
                      /\ IsHit(Similarity(index'[k], vec), CacheThreshold)
                      /\ Truthy(index'[k].text)
                      /\ index'[k].text = answer[t] ]_vars

\* C21: in every reachable state no key stands at two positions of the
\* window, also when two write-backs derive the same key.
C21_WindowKeysUnique ==
  \A i, j \in 1 .. Len(user_cache) : user_cache[i] = user_cache[j] => i = j

====
